---- MODULE Spec2Model ----
(***************************************************************************)
(* MCTS-GSM8k-Demo: the persona nodes (node.py), the oracle's retry loop   *)
(* (model_calls.py) and the driver (main.py), with the search engine that  *)
(* main.py imports from mcts_tree.                                         *)
(*                                                                         *)
(* A text is a sequence of tokens.  A token is a string: a persona tag, a  *)
(* final-answer marker, a blank, a sign, a digit, a dot, or other words.   *)
(***************************************************************************)
EXTENDS Integers, Sequences, FiniteSets, TLC

VARIABLES
    nodes,          \* the live node objects, by identity 1..Len(nodes)
    ret,            \* what the last node-level call did: value, exception, calls, log
    failed,         \* the nodes on which a find_children call has raised
    go,             \* the get_output call under way, or the last one
    usage,          \* the oracle's token-usage counters
    add_calls,      \* the number of add_token_usage calls made on the oracle
    N,              \* engine: visit-count, by node
    Q,              \* engine: total-reward, by node
    children_of,    \* engine: the realized children, by explored node
    explored,       \* engine: explored-set
    pc,             \* where the run is
    path,           \* the nodes selection went through in this iteration
    target,         \* the expansion target
    cur,            \* the rollout's current node
    depth,          \* rollout steps taken in this iteration
    sim_reward,     \* the reward of this iteration's simulation
    N0,             \* visit-count when this iteration began
    Q0,             \* total-reward when this iteration began
    completed,      \* the number of do_iteration calls that have returned
    num_iterations, \* args.iterations
    ground_truth,   \* qa_pair["ground_truth"]
    loop_i,         \* main's loop index i: iterations begun
    do_iteration_calls,  \* the ground truth of every do_iteration call made
    choose_calls,   \* the number of choose calls made
    best            \* what choose returned (0: nothing yet)

node_vars == <<nodes, ret, failed>>
oracle_vars == <<go, usage, add_calls>>
engine_vars == <<N, Q, children_of, explored, path, target, cur, depth, sim_reward, N0, Q0,
                 completed>>
main_vars_but_pc == <<num_iterations, ground_truth, loop_i, do_iteration_calls, choose_calls, best>>
main_vars == <<pc, num_iterations, ground_truth, loop_i, do_iteration_calls, choose_calls, best>>
vars == <<node_vars, oracle_vars, engine_vars, main_vars>>

(***************************************************************************)
(* Bounds.                                                                 *)
(***************************************************************************)
MaxLen == 5          \* longest generated output drawn for the reward check
MaxNodes == 4        \* most node objects built by the node-level calls
MaxIterations == 2   \* largest --iterations drawn
MaxRollout == 1      \* most find_random_child calls in one rollout
MaxExpansions == 1   \* most nodes the engine expands in one run
MaxRetries == 3      \* largest max_retries drawn
MaxCalls == 2        \* most get_output calls made on the oracle
MaxTokens == 2       \* largest token count one response reports
MaxAdds == 3         \* most add_token_usage calls made directly on the oracle

(***************************************************************************)
(* Texts.                                                                  *)
(***************************************************************************)
Min(S) == CHOOSE x \in S : \A y \in S : x <= y

\* re.IGNORECASE: the marker in any letter case
IsMarker(t) == t \in {"Final answer:", "final answer:", "FINAL ANSWER:"}

\* \s
IsSpace(t) == t = " "

\* \d
IsDigit(t) == t \in {"0", "1", "2", "3", "4", "5", "6", "7", "8", "9"}

DigitVal(t) ==
    CASE t = "0" -> 0 [] t = "1" -> 1 [] t = "2" -> 2 [] t = "3" -> 3
      [] t = "4" -> 4 [] t = "5" -> 5 [] t = "6" -> 6 [] t = "7" -> 7
      [] t = "8" -> 8 [] t = "9" -> 9

\* the index after the longest run of blanks that starts at i (greedy \s*)
RECURSIVE SkipSpaces(_, _)
SkipSpaces(text, i) ==
    IF i <= Len(text) /\ IsSpace(text[i]) THEN SkipSpaces(text, i + 1) ELSE i

\* the index after the longest run of digits that starts at i (greedy \d+)
RECURSIVE DigitsEnd(_, _)
DigitsEnd(text, i) ==
    IF i <= Len(text) /\ IsDigit(text[i]) THEN DigitsEnd(text, i + 1) ELSE i

NoMatch == [found |-> FALSE, group1 |-> <<>>]

\* r"final answer:\s*(-?\d+(\.\d+)?)" matched with its first token at i
MatchAt(text, i) ==
    IF ~IsMarker(text[i]) THEN NoMatch
    ELSE LET s == SkipSpaces(text, i + 1)
             d == IF s <= Len(text) /\ text[s] = "-" THEN s + 1 ELSE s
             e == DigitsEnd(text, d)
             f == IF e <= Len(text) /\ text[e] = "." /\ DigitsEnd(text, e + 1) > e + 1
                  THEN DigitsEnd(text, e + 1) ELSE e
         IN  IF e = d THEN NoMatch
             ELSE [found |-> TRUE, group1 |-> SubSeq(text, s, f - 1)]

\* re.search: the leftmost match
re_search(text) ==
    LET hits == {i \in 1..Len(text) : MatchAt(text, i).found}
    IN  IF hits = {} THEN NoMatch ELSE MatchAt(text, Min(hits))

RECURSIVE Pow10(_)
Pow10(k) == IF k = 0 THEN 1 ELSE 10 * Pow10(k - 1)

RECURSIVE DigitsToInt(_)
DigitsToInt(ds) ==
    IF ds = <<>> THEN 0
    ELSE 10 * DigitsToInt(SubSeq(ds, 1, Len(ds) - 1)) + DigitVal(ds[Len(ds)])

\* float() as int() of the digits before the dot would be
float_int(s) ==
    LET neg == s[1] = "-"
        body == IF neg THEN Tail(s) ELSE s
        dots == {k \in 1..Len(body) : body[k] = "."}
        dot == IF dots = {} THEN Len(body) + 1 ELSE Min(dots)
        mag == DigitsToInt(SubSeq(body, 1, dot - 1))
    IN  [num |-> IF neg THEN 0 - mag ELSE mag, den |-> 1]

\* float(): the number a numeral denotes, as num/den with den a power of ten
float(s) ==
    LET neg == s[1] = "-"
        body == IF neg THEN Tail(s) ELSE s
        dots == {k \in 1..Len(body) : body[k] = "."}
        dot == IF dots = {} THEN Len(body) + 1 ELSE Min(dots)
        ip == SubSeq(body, 1, dot - 1)
        fp == SubSeq(body, dot + 1, Len(body))
        mag == DigitsToInt(ip) * Pow10(Len(fp)) + DigitsToInt(fp)
    IN  [num |-> IF neg THEN 0 - mag ELSE mag, den |-> Pow10(Len(fp))]

\* == on numbers
NumEq(a, b) == a.num * b.den = b.num * a.den

Num(n) == [num |-> n, den |-> 1]

(***************************************************************************)
(* Nodes (node.py).                                                        *)
(***************************************************************************)
\* the class attribute prompt; QuestionNode inherits LLMNode's
prompt(kind) ==
    CASE kind = "Silly" -> "Silly Man: "
      [] kind = "Funny" -> "Funny Man: "
      [] kind = "Smart" -> "Smart Man: "
      [] OTHER -> "LLM: "

\* the personas in another order
Personas_swapped == <<"Funny", "Silly", "Smart">>

\* the classes find_children instantiates, in order
Personas == <<"Silly", "Funny", "Smart">>

\* make_a_move returning the transcript without the persona's tag
make_a_move_untagged(kind, previous_state, answer) ==
    IF kind = "Question"
    THEN [output |-> previous_state, state |-> previous_state, calls |-> <<>>]
    ELSE [output |-> answer,
          state |-> previous_state \o answer,
          calls |-> << previous_state \o <<prompt(kind)>> >>]

\* make_a_move: answer is what get_output returns for the prompt it is sent
make_a_move(kind, previous_state, answer) ==
    IF kind = "Question"
    THEN [output |-> previous_state, state |-> previous_state, calls |-> <<>>]
    ELSE [output |-> answer,
          state |-> previous_state \o <<prompt(kind)>> \o answer,
          calls |-> << previous_state \o <<prompt(kind)>> >>]

\* __init__ that drops the parent it is given
LLMNode_no_parent(kind, previous_state, parent, answer) ==
    LET m == make_a_move(kind, previous_state, answer)
    IN  [kind |-> kind, previous_state |-> previous_state, parent |-> 0,
         output |-> m.output, state |-> m.state, children |-> <<>>]

\* LLMNode.__init__ (children None is the empty tuple)
LLMNode(kind, previous_state, parent, answer) ==
    LET m == make_a_move(kind, previous_state, answer)
    IN  [kind |-> kind, previous_state |-> previous_state, parent |-> parent,
         output |-> m.output, state |-> m.state, children |-> <<>>]

\* `not self.children`
NoChildren(node) == node.children = <<>>

\* find_children that appends each child to self.children as it is built
find_children_partial(ns, n, answers, failAt) ==
    LET self == ns[n]
        L == Len(ns)
        kid(k) == LLMNode(Personas[k], self.state, n, answers[k])
        sent(k) == make_a_move(Personas[k], self.state, answers[k]).calls
    IN  IF ~NoChildren(self)
        THEN [nodes |-> ns, raised |-> FALSE, value |-> self.children, calls |-> <<>>]
        ELSE IF failAt = 0
        THEN [nodes |-> [ns \o <<kid(1), kid(2), kid(3)>>
                            EXCEPT ![n].children = <<L + 1, L + 2, L + 3>>],
              raised |-> FALSE,
              value |-> <<L + 1, L + 2, L + 3>>,
              calls |-> sent(1) \o sent(2) \o sent(3)]
        ELSE IF failAt = 1
        THEN [nodes |-> ns, raised |-> TRUE, value |-> <<>>, calls |-> sent(1)]
        ELSE IF failAt = 2
        THEN [nodes |-> [ns \o <<kid(1)>> EXCEPT ![n].children = <<L + 1>>],
              raised |-> TRUE, value |-> <<>>, calls |-> sent(1) \o sent(2)]
        ELSE [nodes |-> [ns \o <<kid(1), kid(2)>> EXCEPT ![n].children = <<L + 1, L + 2>>],
              raised |-> TRUE, value |-> <<>>,
              calls |-> sent(1) \o sent(2) \o sent(3)]

\* find_children on node n of ns.  answers[k] is the oracle's answer to the
\* k-th persona's call; failAt = k > 0 makes the k-th call raise.
find_children(ns, n, answers, failAt) ==
    LET self == ns[n]
        L == Len(ns)
        kid(k) == LLMNode(Personas[k], self.state, n, answers[k])
        sent(k) == make_a_move(Personas[k], self.state, answers[k]).calls
    IN  IF ~NoChildren(self)
        THEN [nodes |-> ns, raised |-> FALSE, value |-> self.children, calls |-> <<>>]
        ELSE IF failAt = 0
        THEN [nodes |-> [ns \o <<kid(1), kid(2), kid(3)>>
                            EXCEPT ![n].children = <<L + 1, L + 2, L + 3>>],
              raised |-> FALSE,
              value |-> <<L + 1, L + 2, L + 3>>,
              calls |-> sent(1) \o sent(2) \o sent(3)]
        ELSE [nodes |-> ns, raised |-> TRUE, value |-> <<>>,
              calls |-> IF failAt = 1 THEN sent(1)
                        ELSE IF failAt = 2 THEN sent(1) \o sent(2)
                        ELSE sent(1) \o sent(2) \o sent(3)]

\* find_random_child handing out the cached child of the kind, when there is one
find_random_child_cached(ns, n, kind, answer, fails) ==
    LET self == ns[n]
        sent == make_a_move(kind, self.state, answer).calls
        k == CHOOSE j \in 1..3 : Personas[j] = kind
    IN  IF ~NoChildren(self)
        THEN [nodes |-> ns, raised |-> FALSE, value |-> self.children[k], calls |-> <<>>]
        ELSE IF fails
        THEN [nodes |-> ns, raised |-> TRUE, value |-> 0, calls |-> sent]
        ELSE [nodes |-> ns \o <<LLMNode(kind, self.state, n, answer)>>,
              raised |-> FALSE, value |-> Len(ns) + 1, calls |-> sent]

\* find_random_child on node n: random.choice gives kind; the call may raise
find_random_child(ns, n, kind, answer, fails) ==
    LET self == ns[n]
        sent == make_a_move(kind, self.state, answer).calls
    IN  IF fails
        THEN [nodes |-> ns, raised |-> TRUE, value |-> 0, calls |-> sent]
        ELSE [nodes |-> ns \o <<LLMNode(kind, self.state, n, answer)>>,
              raised |-> FALSE, value |-> Len(ns) + 1, calls |-> sent]

\* is_terminal with a pattern whose decimal part is not optional
is_terminal_decimal_only(node) ==
    /\ re_search(node.output).found
    /\ \E k \in 1..Len(re_search(node.output).group1) :
           re_search(node.output).group1[k] = "."

\* is_terminal: the match object, truthy when there is a match
is_terminal(node) == re_search(node.output).found

\* an is_terminal that consumes the text it searches
is_terminal_call_consuming(ns, n) ==
    [nodes |-> [ns EXCEPT ![n].output = <<>>],
     value |-> is_terminal(ns[n]), calls |-> <<>>]

\* a call of is_terminal on node n: it reads self.output and assigns nothing
is_terminal_call(ns, n) ==
    [nodes |-> ns, value |-> is_terminal(ns[n]), calls |-> <<>>]

\* the f-string logged by reward
SolvingPath(node) == node.previous_state \o <<prompt(node.kind)>> \o node.state

\* reward without the assert, logging and scoring 0 when nothing matches
reward_unguarded(node, gt) ==
    IF ~is_terminal(node)
    THEN [raised |-> FALSE, value |-> 0, logged |-> <<SolvingPath(node)>>]
    ELSE [raised |-> FALSE,
          value |-> IF NumEq(float(re_search(node.output).group1), gt) THEN 1 ELSE 0,
          logged |-> <<SolvingPath(node)>>]

\* reward: the assert, the search, the log record, the comparison.  Run with
\* asserts stripped, match is None and match.group raises before the log line.
\* group1 and prediction are each bound once, as the locals of the method are.
reward(node, gt) ==
    IF ~is_terminal(node)
    THEN [raised |-> TRUE, value |-> -1, logged |-> <<>>]
    ELSE CHOOSE r \in {[raised |-> FALSE,
                         value |-> IF NumEq(prediction, gt) THEN 1 ELSE 0,
                         logged |-> <<SolvingPath(node)>>] :
                            prediction \in {float(group1) :
                                group1 \in {re_search(node.output).group1}}} : TRUE

(***************************************************************************)
(* The question, and the texts drawn for the oracle's answers.             *)
(***************************************************************************)
Question == <<"What is 2+2?">>

Filler == <<"Let", "us", "think">>
Final4 == <<"Final answer:", " ", "4">>
Final5 == <<"final answer:", "5">>

OracleTexts == {Filler, Final4, Final5}

\* the answers drawn for the node-level calls
NodeTexts == {Filler, Final4}

GroundTruths == {Num(4)}

(***************************************************************************)
(* The oracle's retry loop (model_calls.py).  OpenAIModelCalls.get_output  *)
(* and DeepSeekModelCalls.get_output differ in the request's layout only.  *)
(***************************************************************************)
\* ModelCalls.__init__
NoUsage ==
    [total_prompt_tokens |-> 0, total_completion_tokens |-> 0, total_tokens |-> 0,
     api_calls |-> 0]

\* get_token_usage: the dictionary returned, and the counters after the call
get_token_usage(u) ==
    [usage |-> u,
     value |-> [prompt_tokens |-> u.total_prompt_tokens,
                completion_tokens |-> u.total_completion_tokens,
                total_tokens |-> u.total_tokens,
                api_calls |-> u.api_calls]]

\* add_token_usage leaving the completion tokens out of the total
add_token_usage_prompt_only(u, prompt_tokens, completion_tokens) ==
    [total_prompt_tokens |-> u.total_prompt_tokens + prompt_tokens,
     total_completion_tokens |-> u.total_completion_tokens + completion_tokens,
     total_tokens |-> u.total_tokens + prompt_tokens,
     api_calls |-> u.api_calls + 1]

\* add_token_usage
add_token_usage(u, prompt_tokens, completion_tokens) ==
    [total_prompt_tokens |-> u.total_prompt_tokens + prompt_tokens,
     total_completion_tokens |-> u.total_completion_tokens + completion_tokens,
     total_tokens |-> u.total_tokens + prompt_tokens + completion_tokens,
     api_calls |-> u.api_calls + 1]

\* no get_output call yet
NoGetOutput ==
    [pc |-> "none", max_retries |-> 0, attempt |-> 0, requests |-> 0, sleeps |-> 0,
     errors |-> <<>>, raised |-> "", message |-> <<>>, calls |-> 0]

OracleUnused == go = NoGetOutput /\ usage = NoUsage /\ add_calls = 0

Errors == {"timeout", "rate limit"}

\* `if attempt < max_retries` giving up one attempt early
MayRetry_early(attempt, max_retries) == attempt + 1 < max_retries

\* `if attempt < max_retries`, after attempt += 1
MayRetry(attempt, max_retries) == attempt < max_retries

\* get_output(prompt, max_retries): attempt = 0
GetOutputBegins ==
    /\ go.pc \in {"none", "returned", "raised"}
    /\ go.calls < MaxCalls
    /\ \E m \in 1..MaxRetries :
           go' = [NoGetOutput EXCEPT !.pc = "loop", !.max_retries = m,
                                     !.calls = go.calls + 1]
    /\ usage' = usage
    /\ add_calls' = add_calls

\* one pass of the while loop in which the request is answered: the usage, if
\* the response has one, is added, and the message is returned
AttemptSucceeds ==
    /\ go.pc = "loop"
    /\ go.attempt < go.max_retries
    /\ \E text \in OracleTexts, has_usage \in BOOLEAN, p \in 1..MaxTokens, c \in 1..MaxTokens :
           /\ usage' = IF has_usage THEN add_token_usage(usage, p, c) ELSE usage
           /\ add_calls' = IF has_usage THEN add_calls + 1 ELSE add_calls
           /\ go' = [go EXCEPT !.pc = "returned", !.requests = @ + 1, !.message = text]

\* one pass in which the try block raises e, in the request (tracked is
\* FALSE) or at choices[0].message.content after the usage was added: the
\* except clause counts the attempt, then sleeps and goes on, or re-raises e
AttemptFails ==
    /\ go.pc = "loop"
    /\ go.attempt < go.max_retries
    /\ \E e \in Errors, tracked \in BOOLEAN, p \in 1..MaxTokens, c \in 1..MaxTokens :
           /\ usage' = IF tracked THEN add_token_usage(usage, p, c) ELSE usage
           /\ add_calls' = IF tracked THEN add_calls + 1 ELSE add_calls
           /\ go' = IF MayRetry(go.attempt + 1, go.max_retries)
                    THEN [go EXCEPT !.attempt = @ + 1, !.requests = @ + 1,
                                    !.errors = Append(@, e), !.sleeps = @ + 1]
                    ELSE [go EXCEPT !.attempt = @ + 1, !.requests = @ + 1,
                                    !.errors = Append(@, e), !.raised = e,
                                    !.pc = "raised"]

(***************************************************************************)
(* The oracle as the nodes see it: an answer, or an exception once the     *)
(* retries are used up.                                                    *)
(***************************************************************************)
NoCall == [op |-> "none", node |-> 0, raised |-> FALSE, value |-> 0,
           calls |-> <<>>, logged |-> <<>>, gt |-> Num(0)]

\* QuestionNode(qa_pair["question"], model_api, None)
RootNode(question) == LLMNode("Question", question, 0, <<>>)

\* MCTS(): no statistics yet
EngineFresh ==
    /\ N = <<>> /\ Q = <<>> /\ children_of = <<>> /\ explored = {}
    /\ path = <<>> /\ target = 0 /\ cur = 0 /\ depth = 0 /\ sim_reward = 0
    /\ N0 = <<>> /\ Q0 = <<>> /\ completed = 0

\* main is not running
MainUnused ==
    /\ pc = "none" /\ num_iterations = 0 /\ ground_truth = Num(0) /\ loop_i = 0
    /\ do_iteration_calls = <<>> /\ choose_calls = 0 /\ best = 0

(***************************************************************************)
(* get_output calls on one oracle, one after another.                      *)
(***************************************************************************)
InitRetry ==
    /\ nodes = <<RootNode(Question)>>
    /\ ret = NoCall
    /\ failed = {}
    /\ OracleUnused
    /\ EngineFresh
    /\ MainUnused

NextRetry ==
    \/ GetOutputBegins /\ UNCHANGED <<node_vars, engine_vars, main_vars>>
    \/ AttemptSucceeds /\ UNCHANGED <<node_vars, engine_vars, main_vars>>
    \/ AttemptFails /\ UNCHANGED <<node_vars, engine_vars, main_vars>>

SpecRetry == InitRetry /\ [][NextRetry]_vars

(***************************************************************************)
(* add_token_usage and get_token_usage called directly on one oracle, in   *)
(* any order, with any token counts from 0 on.                             *)
(***************************************************************************)
InitUsage ==
    /\ nodes = <<RootNode(Question)>>
    /\ ret = NoCall
    /\ failed = {}
    /\ OracleUnused
    /\ EngineFresh
    /\ MainUnused

AddTokenUsage ==
    /\ add_calls < MaxAdds
    /\ \E prompt_tokens \in 0..MaxTokens, completion_tokens \in 0..MaxTokens :
           usage' = add_token_usage(usage, prompt_tokens, completion_tokens)
    /\ add_calls' = add_calls + 1
    /\ ret' = [NoCall EXCEPT !.op = "add_token_usage"]
    /\ UNCHANGED <<nodes, failed, go>>

GetTokenUsage ==
    /\ \E r \in {get_token_usage(usage)} :
           /\ usage' = r.usage
           /\ ret' = [NoCall EXCEPT !.op = "get_token_usage", !.value = r.value]
    /\ UNCHANGED <<nodes, failed, go, add_calls>>

NextUsage ==
    \/ AddTokenUsage /\ UNCHANGED <<engine_vars, main_vars>>
    \/ GetTokenUsage /\ UNCHANGED <<engine_vars, main_vars>>

SpecUsage == InitUsage /\ [][NextUsage]_vars

(***************************************************************************)
(* find_children and find_random_child, on any live node, in any order.    *)
(***************************************************************************)
InitNode ==
    /\ nodes = <<RootNode(Question)>>
    /\ ret = NoCall
    /\ failed = {}
    /\ OracleUnused
    /\ EngineFresh
    /\ MainUnused

NodeFindChildren ==
    \E n \in 1..Len(nodes), answers \in [1..3 -> NodeTexts], failAt \in 0..3 :
        /\ ~NoChildren(nodes[n]) \/ Len(nodes) + 3 <= MaxNodes
        /\ LET r == find_children(nodes, n, answers, failAt)
           IN  /\ nodes' = r.nodes
               /\ failed' = IF r.raised THEN failed \cup {n} ELSE failed
               /\ ret' = [NoCall EXCEPT !.op = "find_children", !.node = n,
                              !.raised = r.raised, !.value = r.value,
                              !.calls = r.calls]

NodeFindRandomChild ==
    \E n \in 1..Len(nodes), k \in 1..3, answer \in NodeTexts, fails \in BOOLEAN :
        /\ Len(nodes) + 1 <= MaxNodes
        /\ LET r == find_random_child(nodes, n, Personas[k], answer, fails)
           IN  /\ nodes' = r.nodes
               /\ failed' = failed
               /\ ret' = [NoCall EXCEPT !.op = "find_random_child", !.node = n,
                              !.raised = r.raised, !.value = r.value,
                              !.calls = r.calls]

NextNode ==
    \/ NodeFindChildren /\ UNCHANGED <<oracle_vars, engine_vars, main_vars>>
    \/ NodeFindRandomChild /\ UNCHANGED <<oracle_vars, engine_vars, main_vars>>

SpecNode == InitNode /\ [][NextNode]_vars

(***************************************************************************)
(* find_children and is_terminal, on any live node, in any order.          *)
(***************************************************************************)
QueryFindChildren ==
    \E n \in 1..Len(nodes), answers \in [1..3 -> OracleTexts], failAt \in 0..3 :
        /\ ~NoChildren(nodes[n]) \/ Len(nodes) + 3 <= MaxNodes
        /\ LET r == find_children(nodes, n, answers, failAt)
           IN  /\ nodes' = r.nodes
               /\ failed' = IF r.raised THEN failed \cup {n} ELSE failed
               /\ ret' = [NoCall EXCEPT !.op = "find_children", !.node = n,
                              !.raised = r.raised, !.value = r.value,
                              !.calls = r.calls]

NodeIsTerminal ==
    \E n \in 1..Len(nodes) :
        LET r == is_terminal_call(nodes, n)
        IN  /\ nodes' = r.nodes
            /\ failed' = failed
            /\ ret' = [NoCall EXCEPT !.op = "is_terminal", !.node = n,
                           !.value = r.value, !.calls = r.calls]

NextQuery ==
    \/ QueryFindChildren /\ UNCHANGED <<oracle_vars, engine_vars, main_vars>>
    \/ NodeIsTerminal /\ UNCHANGED <<oracle_vars, engine_vars, main_vars>>

SpecQuery == InitNode /\ [][NextQuery]_vars

(***************************************************************************)
(* find_children and find_random_child on a small tree: at most MaxNodes   *)
(* nodes by find_children, and MaxRollout more by find_random_child.       *)
(***************************************************************************)
\* the nodes that find_random_child has built
RandomChildren(ns) ==
    Len(ns) - (1 + 3 * Cardinality({n \in 1..Len(ns) : ~NoChildren(ns[n])}))

\* find_children that the oracle answers
CacheFindChildren ==
    \E n \in 1..Len(nodes), answers \in [1..3 -> NodeTexts] :
        /\ ~NoChildren(nodes[n]) \/ Len(nodes) - RandomChildren(nodes) + 3 <= MaxNodes
        /\ LET r == find_children(nodes, n, answers, 0)
           IN  /\ nodes' = r.nodes
               /\ failed' = failed
               /\ ret' = [NoCall EXCEPT !.op = "find_children", !.node = n,
                              !.raised = r.raised, !.value = r.value,
                              !.calls = r.calls]

CacheFindRandomChild ==
    \E n \in 1..Len(nodes), k \in 1..3, answer \in NodeTexts, fails \in BOOLEAN :
        /\ RandomChildren(nodes) < MaxRollout
        /\ LET r == find_random_child(nodes, n, Personas[k], answer, fails)
           IN  /\ nodes' = r.nodes
               /\ failed' = failed
               /\ ret' = [NoCall EXCEPT !.op = "find_random_child", !.node = n,
                              !.raised = r.raised, !.value = r.value,
                              !.calls = r.calls]

NextCache ==
    \/ CacheFindChildren /\ UNCHANGED <<oracle_vars, engine_vars, main_vars>>
    \/ CacheFindRandomChild /\ UNCHANGED <<oracle_vars, engine_vars, main_vars>>

SpecCache == InitNode /\ [][NextCache]_vars

(***************************************************************************)
(* reward and is_terminal on one child whose generated output is any text  *)
(* over the alphabet, up to MaxLen tokens.                                 *)
(***************************************************************************)
Alphabet == {"Final answer:", " ", "-", "5", "2", "."}

TextsUpTo(k) == UNION {[1..m -> Alphabet] : m \in 0..k}

RewardTruths == {Num(5), Num(2), [num |-> 52, den |-> 10], Num(-5)}

InitReward ==
    \E out \in TextsUpTo(MaxLen) :
        /\ nodes = find_random_child(<<RootNode(Question)>>, 1, "Smart", out, FALSE).nodes
        /\ ret = NoCall
        /\ failed = {}
        /\ OracleUnused
        /\ EngineFresh
        /\ MainUnused

RewardCall ==
    \E gt \in RewardTruths :
        LET r == reward(nodes[2], gt)
        IN  /\ nodes' = nodes
            /\ failed' = failed
            /\ ret' = [NoCall EXCEPT !.op = "reward", !.node = 2, !.gt = gt,
                           !.raised = r.raised, !.value = r.value,
                           !.logged = r.logged]

NextReward == RewardCall /\ UNCHANGED <<oracle_vars, engine_vars, main_vars>>

SpecReward == InitReward /\ [][NextReward]_vars

(***************************************************************************)
(* The search engine (mcts_tree.MCTS), as the design describes it.         *)
(***************************************************************************)
VisitCount(n) == IF n \in DOMAIN N THEN N[n] ELSE 0

TotalReward(n) == IF n \in DOMAIN Q THEN Q[n] ELSE 0

\* 1000 * ln(n), n = 1..16
LnMilli ==
    <<0, 693, 1099, 1386, 1609, 1792, 1946, 2079, 2197, 2303, 2398, 2485,
      2565, 2639, 2708, 2773>>

RECURSIVE ISqrtIn(_, _, _)
ISqrtIn(x, lo, hi) ==
    IF lo = hi THEN lo
    ELSE LET mid == (lo + hi + 1) \div 2
         IN  IF mid * mid <= x THEN ISqrtIn(x, mid, hi) ELSE ISqrtIn(x, lo, mid - 1)

\* the integer square root, for x < 4000 * 4000
ISqrt(x) == ISqrtIn(x, 0, 4000)

\* 1000 * (Q/N + sqrt(2) * sqrt(ln(N[parent]) / N)), for a visited child
UCB(c, p) ==
    (TotalReward(c) * 1000) \div VisitCount(c)
        + ISqrt((2 * LnMilli[VisitCount(p)] * 1000) \div VisitCount(c))

Range(f) == {f[k] : k \in DOMAIN f}

\* the children selection may descend to from n, unvisited ones first,
\* looking only at the unvisited ones would be wrong
BestChildren_ucb_only(n) ==
    LET kids == Range(children_of[n])
        score(c) == IF VisitCount(c) = 0 THEN 0
                    ELSE (TotalReward(c) * 1000) \div VisitCount(c)
    IN  {c \in kids : \A d \in kids : score(d) <= score(c)}

\* the children selection may descend to from n: an unvisited child has an
\* infinite score; otherwise the children of the highest UCB
BestChildren(n) ==
    LET kids == Range(children_of[n])
        unvisited == {c \in kids : VisitCount(c) = 0}
    IN  IF unvisited # {} THEN unvisited
        ELSE {c \in kids : \A d \in kids : UCB(d, n) <= UCB(c, n)}

\* selection from n: descend while the node is explored and not terminal
RECURSIVE SelectionPaths(_)
SelectionPaths(n) ==
    IF n \in explored /\ ~is_terminal(nodes[n])
    THEN {<<n>> \o p : p \in UNION {SelectionPaths(c) : c \in BestChildren(n)}}
    ELSE {<<n>>}

\* the expansion targets after expanding s into kids of ns: a child that is
\* not terminal, or s itself when there is none
Targets(ns, s, kids) ==
    LET open == {c \in Range(kids) : ~is_terminal(ns[c])}
    IN  IF open = {} THEN {s} ELSE open

\* the nodes from n up to the root, following parent
RECURSIVE PathToRoot(_, _)
PathToRoot(ns, n) == IF n = 0 THEN {} ELSE {n} \cup PathToRoot(ns, ns[n].parent)

\* the nodes of the tree: the root and every realized child
TreeSize == 1 + 3 * Cardinality({n \in 1..Len(nodes) : ~NoChildren(nodes[n])})

Select ==
    /\ pc = "select"
    /\ \E p \in SelectionPaths(1) : path' = p
    /\ N0' = N
    /\ Q0' = Q
    /\ pc' = "expand"
    /\ UNCHANGED <<node_vars, N, Q, children_of, explored, target, cur, depth, sim_reward,
                   completed>>

\* an oracle that may give any answer to any persona, or fail
AnyOracle ==
    [texts |-> [kind \in {"Silly", "Funny", "Smart"} |-> OracleTexts],
     fails |-> BOOLEAN]

\* cap: the most nodes this run may expand
Expand(cap, oracle) ==
    /\ pc = "expand"
    /\ LET s == path[Len(path)]
       IN  IF is_terminal(nodes[s]) \/ s \in explored
           THEN /\ target' = s
                /\ cur' = s
                /\ pc' = "simulate"
                /\ UNCHANGED <<node_vars, children_of, explored>>
           ELSE \E answers \in [1..3 -> OracleTexts], failAt \in 0..3 :
                    \E r \in {find_children(nodes, s, answers, failAt)} :
                        /\ Cardinality(explored) < cap
                        /\ \A k \in 1..3 : answers[k] \in oracle.texts[Personas[k]]
                        /\ (failAt > 0) \in oracle.fails
                        /\ ret' = [NoCall EXCEPT !.op = "find_children", !.node = s,
                                       !.raised = r.raised, !.value = r.value,
                                       !.calls = r.calls]
                        /\ nodes' = r.nodes
                        /\ failed' = IF r.raised THEN failed \cup {s} ELSE failed
                        /\ IF r.raised
                           THEN /\ pc' = "raised"
                                /\ UNCHANGED <<children_of, explored, target, cur>>
                           ELSE /\ children_of' =
                                       [m \in DOMAIN children_of \cup {s} |->
                                           IF m = s THEN r.value ELSE children_of[m]]
                                /\ explored' = explored \cup {s}
                                /\ \E t \in Targets(r.nodes, s, r.value) :
                                       target' = t /\ cur' = t
                                /\ pc' = "simulate"
    /\ UNCHANGED <<N, Q, path, depth, sim_reward, N0, Q0, completed>>

SimulateStep(oracle) ==
    /\ pc = "simulate"
    /\ ~is_terminal(nodes[cur])
    /\ depth < MaxRollout
    /\ \E k \in 1..3, answer \in OracleTexts, fails \in BOOLEAN :
           \E r \in {find_random_child(nodes, cur, Personas[k], answer, fails)} :
               /\ answer \in oracle.texts[Personas[k]]
               /\ fails \in oracle.fails
               /\ ret' = [NoCall EXCEPT !.op = "find_random_child", !.node = cur,
                              !.raised = r.raised, !.value = r.value,
                              !.calls = r.calls]
               /\ nodes' = r.nodes
               /\ failed' = failed
               /\ IF r.raised
                  THEN pc' = "raised" /\ UNCHANGED <<cur, depth>>
                  ELSE pc' = "simulate" /\ cur' = r.value /\ depth' = depth + 1
    /\ UNCHANGED <<N, Q, children_of, explored, path, target, sim_reward, N0, Q0, completed>>

SimulateReward ==
    /\ pc = "simulate"
    /\ is_terminal(nodes[cur])
    /\ \E r \in {reward(nodes[cur], ground_truth)} :
           /\ ret' = [NoCall EXCEPT !.op = "reward", !.node = cur, !.gt = ground_truth,
                          !.raised = r.raised, !.value = r.value,
                          !.logged = r.logged]
           /\ sim_reward' = r.value
    /\ pc' = "backpropagate"
    /\ UNCHANGED <<nodes, failed, N, Q, children_of, explored, path, target, cur, depth,
                   N0, Q0, completed>>

Backpropagate ==
    /\ pc = "backpropagate"
    /\ LET P == PathToRoot(nodes, target)
       IN  /\ N' = [m \in DOMAIN N \cup P |->
                       IF m \in P THEN VisitCount(m) + 1 ELSE VisitCount(m)]
           /\ Q' = [m \in DOMAIN Q \cup P |->
                       IF m \in P THEN TotalReward(m) + sim_reward ELSE TotalReward(m)]
    /\ pc' = "returning"
    /\ UNCHANGED <<node_vars, children_of, explored, path, target, cur, depth, sim_reward, N0, Q0,
                   completed>>

\* do_iteration returns: its locals and the rollout's nodes are dropped
Return ==
    /\ pc = "returning"
    /\ nodes' = SubSeq(nodes, 1, TreeSize)
    /\ ret' = NoCall
    /\ failed' = failed
    /\ path' = <<>> /\ target' = 0 /\ cur' = 0 /\ depth' = 0 /\ sim_reward' = 0
    /\ N0' = <<>> /\ Q0' = <<>>
    /\ completed' = completed + 1
    /\ pc' = "idle"
    /\ UNCHANGED <<N, Q, children_of, explored>>

\* the mean of a is below the mean of b; an unvisited child is minus infinity
MeanBelow(a, b) ==
    IF VisitCount(b) = 0 THEN FALSE
    ELSE IF VisitCount(a) = 0 THEN TRUE
    ELSE TotalReward(a) * VisitCount(b) < TotalReward(b) * VisitCount(a)

\* choose taking the last child of the highest mean
choose_last(n) ==
    IF is_terminal(nodes[n]) THEN [raised |-> TRUE, value |-> 0]
    ELSE LET kids == children_of[n]
             tops == {k \in DOMAIN kids : \A j \in DOMAIN kids : ~MeanBelow(kids[k], kids[j])}
         IN  [raised |-> FALSE, value |-> kids[CHOOSE k \in tops : \A j \in tops : j <= k]]

\* choose: the first child of n of the highest mean
choose(n) ==
    IF is_terminal(nodes[n]) THEN [raised |-> TRUE, value |-> 0]
    ELSE LET kids == children_of[n]
             tops == {k \in DOMAIN kids : \A j \in DOMAIN kids : ~MeanBelow(kids[k], kids[j])}
         IN  [raised |-> FALSE, value |-> kids[Min(tops)]]

(***************************************************************************)
(* main (main.py).                                                         *)
(***************************************************************************)
InitMain ==
    /\ nodes = <<RootNode(Question)>>
    /\ ret = NoCall
    /\ failed = {}
    /\ OracleUnused
    /\ EngineFresh
    /\ pc = "idle"
    /\ num_iterations \in 1..MaxIterations
    /\ ground_truth \in GroundTruths
    /\ loop_i = 0
    /\ do_iteration_calls = <<>>
    /\ choose_calls = 0
    /\ best = 0

\* a loop that runs once more
LoopGoesOn_once_more == loop_i <= num_iterations

\* for i in range(num_iterations)
LoopGoesOn == loop_i < num_iterations

\* mcts.do_iteration(root_node, qa_pair["ground_truth"])
MainLoop ==
    /\ pc = "idle"
    /\ LoopGoesOn
    /\ loop_i' = loop_i + 1
    /\ do_iteration_calls' = Append(do_iteration_calls, ground_truth)
    /\ pc' = "select"
    /\ UNCHANGED <<node_vars, oracle_vars, engine_vars, num_iterations, ground_truth,
                   choose_calls, best>>

\* best_next_node = mcts.choose(root_node)
MainChoose ==
    /\ pc = "idle"
    /\ ~LoopGoesOn
    /\ choose_calls' = choose_calls + 1
    /\ LET r == choose(1)
       IN  /\ best' = r.value
           /\ pc' = IF r.raised THEN "aborted" ELSE "done"
    /\ UNCHANGED <<node_vars, oracle_vars, engine_vars, num_iterations, ground_truth, loop_i,
                   do_iteration_calls>>

\* an exception of do_iteration leaves main
MainAbort ==
    /\ pc = "raised"
    /\ pc' = "aborted"
    /\ UNCHANGED <<node_vars, oracle_vars, engine_vars, num_iterations, ground_truth, loop_i,
                   do_iteration_calls, choose_calls, best>>

Next ==
    \/ MainLoop
    \/ Select /\ UNCHANGED <<oracle_vars, main_vars_but_pc>>
    \/ Expand(MaxExpansions, AnyOracle) /\ UNCHANGED <<oracle_vars, main_vars_but_pc>>
    \/ SimulateStep(AnyOracle) /\ UNCHANGED <<oracle_vars, main_vars_but_pc>>
    \/ SimulateReward /\ UNCHANGED <<oracle_vars, main_vars_but_pc>>
    \/ Backpropagate /\ UNCHANGED <<oracle_vars, main_vars_but_pc>>
    \/ Return /\ UNCHANGED <<oracle_vars, main_vars_but_pc>>
    \/ MainChoose
    \/ MainAbort

Spec == InitMain /\ [][Next]_vars

(***************************************************************************)
(* do_iteration under a caller that loops as main does, but catches the    *)
(* failure of a call and goes on to the next.                              *)
(***************************************************************************)
CallerCatch ==
    /\ pc = "raised"
    /\ nodes' = SubSeq(nodes, 1, TreeSize)
    /\ ret' = NoCall
    /\ path' = <<>> /\ target' = 0 /\ cur' = 0 /\ depth' = 0 /\ sim_reward' = 0
    /\ N0' = <<>> /\ Q0' = <<>>
    /\ pc' = "idle"
    /\ UNCHANGED <<failed, oracle_vars, N, Q, children_of, explored, completed, main_vars_but_pc>>

\* an oracle that answers filler or 'Final answer: 4' to any persona, or fails
FailingOracle ==
    [texts |-> [kind \in {"Silly", "Funny", "Smart"} |-> NodeTexts],
     fails |-> BOOLEAN]

NextEngine ==
    \/ MainLoop
    \/ Select /\ UNCHANGED <<oracle_vars, main_vars_but_pc>>
    \/ Expand(MaxExpansions, FailingOracle) /\ UNCHANGED <<oracle_vars, main_vars_but_pc>>
    \/ SimulateStep(FailingOracle) /\ UNCHANGED <<oracle_vars, main_vars_but_pc>>
    \/ SimulateReward /\ UNCHANGED <<oracle_vars, main_vars_but_pc>>
    \/ Backpropagate /\ UNCHANGED <<oracle_vars, main_vars_but_pc>>
    \/ Return /\ UNCHANGED <<oracle_vars, main_vars_but_pc>>
    \/ CallerCatch

SpecEngine == InitMain /\ [][NextEngine]_vars

(***************************************************************************)
(* main with the default number of iterations, against a stub oracle that  *)
(* answers 'Final answer: 4' as the Smart persona, filler as the others,   *)
(* and never fails.                                                        *)
(***************************************************************************)
DefaultIterations == 4

StubOracle ==
    [texts |-> [kind \in {"Silly", "Funny", "Smart"} |->
                   IF kind = "Smart" THEN {Final4} ELSE {Filler}],
     fails |-> {FALSE}]

InitE2E ==
    /\ nodes = <<RootNode(Question)>>
    /\ ret = NoCall
    /\ failed = {}
    /\ OracleUnused
    /\ EngineFresh
    /\ pc = "idle"
    /\ num_iterations = DefaultIterations
    /\ ground_truth = Num(4)
    /\ loop_i = 0
    /\ do_iteration_calls = <<>>
    /\ choose_calls = 0
    /\ best = 0

NextE2E ==
    \/ MainLoop
    \/ Select /\ UNCHANGED <<oracle_vars, main_vars_but_pc>>
    \/ Expand(DefaultIterations, StubOracle) /\ UNCHANGED <<oracle_vars, main_vars_but_pc>>
    \/ SimulateStep(StubOracle) /\ UNCHANGED <<oracle_vars, main_vars_but_pc>>
    \/ SimulateReward /\ UNCHANGED <<oracle_vars, main_vars_but_pc>>
    \/ Backpropagate /\ UNCHANGED <<oracle_vars, main_vars_but_pc>>
    \/ Return /\ UNCHANGED <<oracle_vars, main_vars_but_pc>>
    \/ MainChoose

SpecE2E == InitE2E /\ [][NextE2E]_vars

(***************************************************************************)
(* main against the stub oracle, which never fails, in rollouts where the   *)
(* persona that answers with the final-answer marker is drawn after at     *)
(* most MaxRollout draws of the others.  The run is one thread: it goes on *)
(* while it can.                                                           *)
(***************************************************************************)
\* the rollout step that the oracle answers with the marker, at the latest
SimulateLastStep(oracle) ==
    /\ pc = "simulate"
    /\ ~is_terminal(nodes[cur])
    /\ depth >= MaxRollout
    /\ \E k \in 1..3, answer \in OracleTexts :
           \E r \in {find_random_child(nodes, cur, Personas[k], answer, FALSE)} :
               /\ answer \in oracle.texts[Personas[k]]
               /\ is_terminal(r.nodes[r.value])
               /\ ret' = [NoCall EXCEPT !.op = "find_random_child", !.node = cur,
                              !.raised = r.raised, !.value = r.value,
                              !.calls = r.calls]
               /\ nodes' = r.nodes
               /\ failed' = failed
               /\ pc' = "simulate" /\ cur' = r.value /\ depth' = depth + 1
    /\ UNCHANGED <<N, Q, children_of, explored, path, target, sim_reward, N0, Q0, completed>>

NextLive ==
    \/ MainLoop
    \/ Select /\ UNCHANGED <<oracle_vars, main_vars_but_pc>>
    \/ Expand(MaxIterations, StubOracle) /\ UNCHANGED <<oracle_vars, main_vars_but_pc>>
    \/ SimulateStep(StubOracle) /\ UNCHANGED <<oracle_vars, main_vars_but_pc>>
    \/ SimulateLastStep(StubOracle) /\ UNCHANGED <<oracle_vars, main_vars_but_pc>>
    \/ SimulateReward /\ UNCHANGED <<oracle_vars, main_vars_but_pc>>
    \/ Backpropagate /\ UNCHANGED <<oracle_vars, main_vars_but_pc>>
    \/ Return /\ UNCHANGED <<oracle_vars, main_vars_but_pc>>
    \/ MainChoose

SpecLive == InitMain /\ [][NextLive]_vars /\ WF_vars(NextLive)

(***************************************************************************)
(* Properties of the node-level calls.                                     *)
(***************************************************************************)
Tag(k) == <<"Silly Man: ", "Funny Man: ", "Smart Man: ">>[k]

\* C1: the first find_children on a node builds exactly three children, in
\* the order Silly, Funny, Smart, each by one oracle call whose prompt is the
\* node's state followed by that persona's tag; every later call returns the
\* same three children and makes no oracle call.
FindChildrenOnce ==
    [][(ret'.op = "find_children" /\ ~ret'.raised) =>
        LET n == ret'.node
            c == ret'.value
            L == Len(nodes)
        IN  IF nodes[n].children = <<>>
            THEN /\ c = <<L + 1, L + 2, L + 3>>
                 /\ Len(nodes') = L + 3
                 /\ nodes'[n].children = c
                 /\ \A m \in 1..L : m # n => nodes'[m] = nodes[m]
                 /\ <<nodes'[c[1]].kind, nodes'[c[2]].kind, nodes'[c[3]].kind>>
                        = <<"Silly", "Funny", "Smart">>
                 /\ \A k \in 1..3 : nodes'[c[k]].parent = n
                 /\ ret'.calls = [k \in 1..3 |-> nodes[n].state \o <<Tag(k)>>]
            ELSE /\ c = nodes[n].children
                 /\ Len(c) = 3
                 /\ ret'.calls = <<>>
                 /\ nodes' = nodes]_vars

\* a later find_children has returned the cached children without a call
FindChildrenCached ==
    /\ ret.op = "find_children"
    /\ ~ret.raised
    /\ ret.calls = <<>>
    /\ ret.value = nodes[ret.node].children
    /\ Len(ret.value) = 3

\* the places where a final-answer marker is followed, after blanks only,
\* by a numeral: <<marker, first token of the numeral>>
IsNumeralStart(text, a) ==
    \/ IsDigit(text[a])
    \/ text[a] = "-" /\ a + 1 <= Len(text) /\ IsDigit(text[a + 1])

AnswerPlaces(text) ==
    {p \in (1..Len(text)) \X (1..Len(text)) :
        /\ p[1] < p[2]
        /\ IsMarker(text[p[1]])
        /\ \A k \in (p[1] + 1)..(p[2] - 1) : text[k] = " "
        /\ IsNumeralStart(text, p[2])}

\* sign? digit+ (. digit+)?
WellFormed(s) ==
    LET body == IF s # <<>> /\ s[1] = "-" THEN Tail(s) ELSE s
        dots == {k \in 1..Len(body) : body[k] = "."}
    IN  /\ body # <<>>
        /\ \A k \in 1..Len(body) : IsDigit(body[k]) \/ body[k] = "."
        /\ Cardinality(dots) <= 1
        /\ \A k \in dots : 1 < k /\ k < Len(body)

\* the value of a well-formed numeral, as num/den: digit by digit
Denotes(s) ==
    LET digits == SelectSeq(s, IsDigit)
        dots == {k \in 1..Len(s) : s[k] = "."}
        places == IF dots = {} THEN 0 ELSE Len(s) - Min(dots)
        RECURSIVE Sum(_)
        Sum(k) == IF k = 0 THEN 0
                  ELSE Sum(k - 1) + DigitVal(digits[k]) * Pow10(Len(digits) - k)
    IN  [num |-> IF s[1] = "-" THEN 0 - Sum(Len(digits)) ELSE Sum(Len(digits)),
         den |-> Pow10(places)]

\* the numeral the leftmost answer place holds: the longest well-formed one
Extracted(text) ==
    LET m == Min({p[1] : p \in AnswerPlaces(text)})
        a == CHOOSE a \in 1..Len(text) : <<m, a>> \in AnswerPlaces(text)
        ends == {b \in a..Len(text) : WellFormed(SubSeq(text, a, b))}
        b == CHOOSE b \in ends : \A c \in ends : c <= b
    IN  SubSeq(text, a, b)

\* C5: on a terminal node reward returns 1 when the numeral extracted from
\* the final-answer marker of the node's own output equals the ground truth
\* exactly, 0 otherwise, and nothing else: 'Final answer: 5' against 5 gives
\* 1, 'Final answer: 5.2' against 5 gives 0.
RewardIsExactMatch ==
    (ret.op = "reward" /\ AnswerPlaces(nodes[ret.node].output) # {}) =>
        LET out == nodes[ret.node].output
            v == Denotes(Extracted(out))
        IN  /\ ~ret.raised
            /\ ret.value \in {0, 1}
            /\ ret.value = 1 <=> v.num * ret.gt.den = ret.gt.num * v.den
            /\ (out = <<"Final answer:", " ", "5">> /\ ret.gt = Num(5)) => ret.value = 1
            /\ (out = <<"Final answer:", " ", "5", ".", "2">> /\ ret.gt = Num(5))
                    => ret.value = 0

\* reward has scored 'Final answer: 5.2' against 5
RewardOnFiveTwo ==
    /\ ret.op = "reward"
    /\ nodes[ret.node].output = <<"Final answer:", " ", "5", ".", "2">>
    /\ ret.gt = Num(5)
    /\ ret.value = 0

\* C6: reward on a node whose output holds no final-answer marker fails: no
\* reward value, no solving-path record, the node unchanged.
RewardNeedsTerminal ==
    [][(ret'.op = "reward" /\ AnswerPlaces(nodes[ret'.node].output) = {}) =>
        /\ ret'.raised
        /\ ret'.value \notin {0, 1}
        /\ ret'.logged = <<>>
        /\ nodes' = nodes]_vars

\* reward has been refused on a node whose output has a marker but no numeral
RewardRefused ==
    /\ ret.op = "reward"
    /\ ret.raised
    /\ \E k \in 1..Len(nodes[ret.node].output) : IsMarker(nodes[ret.node].output[k])

(***************************************************************************)
(* Properties of one iteration and of the run.                             *)
(***************************************************************************)
RECURSIVE Ancestor(_, _)
Ancestor(n, k) == IF k = 0 \/ n = 0 THEN n ELSE Ancestor(nodes[n].parent, k - 1)

\* n and the nodes above it
Chain(n) == {Ancestor(n, k) : k \in 0..Len(nodes)} \ {0}

OldVisitCount(n) == IF n \in DOMAIN N0 THEN N0[n] ELSE 0

OldTotalReward(n) == IF n \in DOMAIN Q0 THEN Q0[n] ELSE 0

\* C2: when an iteration has backpropagated, every node from the expansion
\* target up to the root has one more visit and the simulation's reward more
\* total reward, and every other node, the rollout's nodes included, has the
\* statistics it had when the iteration began.
BackpropagationConservation ==
    pc = "returning" =>
        /\ ret.op = "reward"
        /\ 1 \in Chain(target)
        /\ \A n \in 1..Len(nodes) :
               IF n \in Chain(target)
               THEN /\ VisitCount(n) = OldVisitCount(n) + 1
                    /\ TotalReward(n) = OldTotalReward(n) + ret.value
               ELSE /\ VisitCount(n) = OldVisitCount(n)
                    /\ TotalReward(n) = OldTotalReward(n)
        /\ DOMAIN N \subseteq 1..TreeSize

\* an iteration has backpropagated a reward of 1 from a child of the root,
\* past a sibling and a rollout node
BackpropagatedFromChild ==
    /\ pc = "returning"
    /\ target # 1
    /\ ret.value = 1
    /\ Len(nodes) > TreeSize
    /\ VisitCount(target) = 1

\* C3: selection, at a node with a realized child of visit-count 0, descends
\* to a child of visit-count 0, whatever the statistics of the siblings.
UnvisitedFirst ==
    pc = "expand" =>
        \A k \in 1..(Len(path) - 1) :
            /\ path[k + 1] \in Range(children_of[path[k]])
            /\ (\E c \in Range(children_of[path[k]]) : VisitCount(c) = 0)
                    => VisitCount(path[k + 1]) = 0

\* selection has passed a sibling with a reward for an unvisited child
UnvisitedChosenOverRewarded ==
    /\ pc = "expand"
    /\ Len(path) >= 2
    /\ VisitCount(path[2]) = 0
    /\ \E c \in Range(children_of[1]) : VisitCount(c) >= 1 /\ TotalReward(c) >= 1

RootKids == children_of[1]

Visited == {k \in DOMAIN RootKids : VisitCount(RootKids[k]) >= 1}

\* the mean of the k-th child of the root is at most that of the j-th
MeanAtMost(k, j) ==
    TotalReward(RootKids[k]) * VisitCount(RootKids[j])
        <= TotalReward(RootKids[j]) * VisitCount(RootKids[k])

\* the first visited child of the root of the highest mean
IsFirstBestVisited(b) ==
    \E k \in Visited :
        /\ b = RootKids[k]
        /\ \A j \in Visited : MeanAtMost(j, k)
        /\ \A j \in Visited : j < k => ~MeanAtMost(k, j)

\* C4 as stated: choose returns a visited child of the highest mean, the
\* first of them, and never a child of visit-count 0.
ChooseReturnsVisited ==
    pc = "done" => VisitCount(best) >= 1 /\ IsFirstBestVisited(best)

\* C4, amended: when some child of the root has been visited, choose returns
\* the first visited child of the highest mean; when none has, it returns
\* the first child.
ChooseBestVisitedIfAny ==
    pc = "done" =>
        IF Visited # {} THEN VisitCount(best) >= 1 /\ IsFirstBestVisited(best)
        ELSE best = RootKids[1]

\* choose has picked between two visited children of different means, with
\* the third child unvisited
ChoseHigherMean ==
    /\ pc = "done"
    /\ Cardinality(Visited) = 2
    /\ \E j, k \in Visited : ~MeanAtMost(k, j)
    /\ VisitCount(best) >= 1

RetryCounts ==
    /\ go.requests <= go.max_retries
    /\ go.pc = "loop" =>
           /\ go.requests = Len(go.errors)
           /\ go.sleeps = go.requests
           /\ go.requests < go.max_retries
    /\ go.pc = "returned" =>
           /\ go.requests = Len(go.errors) + 1
           /\ go.sleeps = Len(go.errors)
           /\ go.message \in OracleTexts
           /\ go.raised = ""
    /\ go.pc = "raised" =>
           /\ go.requests = go.max_retries
           /\ Len(go.errors) = go.max_retries
           /\ go.sleeps = go.max_retries - 1
           /\ go.raised = go.errors[go.max_retries]

\* C7: a get_output call with max_retries >= 1 makes at most max_retries
\* requests; it returns the text of the first request that succeeds and makes
\* no request after it; it sleeps after every failed request but the last
\* allowed one; when max_retries requests have failed it raises the last
\* one's error, after exactly max_retries requests and max_retries - 1 sleeps.
GetOutputRetries ==
    /\ []RetryCounts
    /\ [][go.pc \in {"returned", "raised"} => go'.calls = go.calls + 1]_go

\* get_output has raised the third error after three requests, the first
\* error being another one
RaisedLastError ==
    /\ go.pc = "raised"
    /\ go.max_retries = 3
    /\ go.requests = 3
    /\ go.errors[1] # go.errors[3]
    /\ go.raised = go.errors[3]

\* C8: when an oracle call of find_children fails, the node's children stay
\* unmaterialized, no node is added, children-of and explored-set are as
\* before and do not hold the node; and a find_children call on a node whose
\* children are unmaterialized starts with the Silly persona's call.
ExpansionIsAtomic ==
    [][/\ (ret'.op = "find_children" /\ ret'.raised) =>
            /\ nodes' = nodes
            /\ nodes'[ret'.node].children = <<>>
            /\ children_of' = children_of
            /\ explored' = explored
            /\ ret'.node \notin explored'
            /\ ret'.node \notin DOMAIN children_of'
            /\ \A m \in 1..Len(nodes') : nodes'[m].parent = ret'.node =>
                   \E e \in explored' : m \in Range(children_of'[e])
       /\ (ret'.op = "find_children" /\ nodes[ret'.node].children = <<>>) =>
            /\ ret'.calls # <<>>
            /\ ret'.calls[1] = nodes[ret'.node].state \o <<"Silly Man: ">>
      ]_vars

\* a node whose expansion had failed has been expanded by a later call,
\* which began with the Silly persona
ExpandedAfterFailure ==
    /\ ret.op = "find_children"
    /\ ~ret.raised
    /\ ret.node \in failed
    /\ ret.node \in explored
    /\ Len(ret.calls) = 3
    /\ ret.calls[1] = nodes[ret.node].state \o <<"Silly Man: ">>

(***************************************************************************)
(* The end-to-end scenario.                                                *)
(***************************************************************************)
\* the last four tokens of a text
Ending(text) == SubSeq(text, Len(text) - 3, Len(text))

SmartEnding == <<"Smart Man: ", "Final answer:", " ", "4">>

\* C9 as stated: after the four iterations choose returns the Smart child of
\* the root, whose transcript ends with 'Smart Man: Final answer: 4'.
E2EChoosesSmart ==
    pc = "done" =>
        /\ best = children_of[1][3]
        /\ nodes[best].kind = "Smart"
        /\ Ending(nodes[best].state) = SmartEnding

\* C9, amended: after the four iterations each child of the root has been
\* visited and has mean reward 1, and choose returns the first of them, the
\* Silly child; the Smart child's transcript ends with 'Smart Man: Final
\* answer: 4'.
E2EChoosesFirst ==
    pc = "done" =>
        /\ completed = 4
        /\ \A k \in 1..3 :
               /\ VisitCount(children_of[1][k]) >= 1
               /\ TotalReward(children_of[1][k]) = VisitCount(children_of[1][k])
        /\ best = children_of[1][1]
        /\ nodes[best].kind = "Silly"
        /\ nodes[best].parent = 1
        /\ nodes[children_of[1][3]].kind = "Smart"
        /\ Ending(nodes[children_of[1][3]].state) = SmartEnding

\* the scenario has run its four iterations and chosen
E2EDone ==
    /\ pc = "done"
    /\ completed = 4
    /\ num_iterations = 4
    /\ ground_truth = Num(4)
    /\ nodes[1].state = <<"What is 2+2?">>
    /\ VisitCount(1) = 4

(***************************************************************************)
(* Properties of a run that a failure ends, and of the usage counters.     *)
(***************************************************************************)
\* C11: when an oracle failure ends a run whose root has realized children,
\* the run has called choose once and holds the best child computable from
\* the statistics gathered, rather than ending without a choose call.
RunReportsOnFailure ==
    (pc = "aborted" /\ 1 \in explored) =>
        /\ choose_calls = 1
        /\ best = choose(1).value

\* C12: the usage counters are incremented exactly once by each get_output
\* call as it returns its text, and never by an attempt that failed; no
\* counter is ever reset or decreased.
UsageCountsSuccesses ==
    [][/\ (go.pc = "loop" /\ go'.pc = "returned") =>
              usage'.api_calls = usage.api_calls + 1
       /\ (go.pc = "loop" /\ go'.pc # "returned") => usage' = usage
       /\ go.pc # "loop" => usage' = usage
       /\ usage'.api_calls >= usage.api_calls
       /\ usage'.total_tokens >= usage.total_tokens
       /\ usage'.total_prompt_tokens >= usage.total_prompt_tokens
       /\ usage'.total_completion_tokens >= usage.total_completion_tokens]_vars

(***************************************************************************)
(* Properties of the queries and of the transcripts.                       *)
(***************************************************************************)
\* C13: an is_terminal call makes no oracle call and changes no node and no
\* counter of the oracle; it answers whether the node's output holds a
\* final-answer marker with its numeral, and as no call ever changes the
\* output of a node, every call on the same node gives the same answer.
IsTerminalIsPure ==
    [][/\ ret'.op = "is_terminal" =>
              /\ nodes' = nodes
              /\ ret'.calls = <<>>
              /\ ~ret'.raised
              /\ usage' = usage
              /\ go' = go
              /\ ret'.value = (AnswerPlaces(nodes[ret'.node].output) # {})
       /\ (ret.op = "is_terminal" /\ ret'.op = "is_terminal" /\ ret'.node = ret.node) =>
              ret'.value = ret.value
       /\ \A m \in 1..Len(nodes) :
              /\ nodes'[m].output = nodes[m].output
              /\ is_terminal(nodes'[m]) = is_terminal(nodes[m])]_vars

\* is_terminal has answered true on a child of a root whose children are
\* materialized
IsTerminalOnChild ==
    /\ ret.op = "is_terminal"
    /\ ret.value = TRUE
    /\ ret.node > 1
    /\ nodes[ret.node].parent = 1
    /\ ~NoChildren(nodes[1])

\* C14: a find_random_child call on a node makes exactly one oracle call,
\* whose prompt is the node's state and a persona tag; when it returns, it
\* returns a node built by this call, of one of the three personas, with the
\* node as parent; every node that existed keeps all its fields, its children
\* cache included, and the returned node is in no children cache.
RandomChildLeavesCache ==
    [][ret'.op = "find_random_child" =>
        LET n == ret'.node
            v == ret'.value
            L == Len(nodes)
        IN  /\ Len(ret'.calls) = 1
            /\ \E k \in 1..3 : ret'.calls[1] = nodes[n].state \o <<Tag(k)>>
            /\ \A m \in 1..L : nodes'[m] = nodes[m]
            /\ nodes'[n].children = nodes[n].children
            /\ IF ret'.raised THEN nodes' = nodes
               ELSE /\ Len(nodes') = L + 1
                    /\ v = L + 1
                    /\ nodes'[v].kind \in {"Silly", "Funny", "Smart"}
                    /\ nodes'[v].parent = n
                    /\ nodes'[v].previous_state = nodes[n].state
                    /\ nodes'[v].children = <<>>
                    /\ ret'.calls[1] = nodes[n].state \o <<prompt(nodes'[v].kind)>>
                    /\ \A m \in 1..Len(nodes') : v \notin Range(nodes'[m].children)]_vars

\* find_random_child has returned a new child of a node whose three children
\* are materialized
RandomChildBesideCache ==
    /\ ret.op = "find_random_child"
    /\ ~ret.raised
    /\ Len(nodes[ret.node].children) = 3
    /\ ret.value \notin Range(nodes[ret.node].children)
    /\ nodes[ret.value].parent = ret.node

KindTag == [Silly |-> "Silly Man: ", Funny |-> "Funny Man: ", Smart |-> "Smart Man: "]

\* C15: in every tree built by root construction, find_children and
\* find_random_child: the root's previous_state and state are the question,
\* with no persona tag, and it has no parent; every other node's
\* previous_state is its parent's state, and its state is its previous_state
\* followed by its persona's tag and its output.
TranscriptsChain ==
    /\ nodes[1].previous_state = <<"What is 2+2?">>
    /\ nodes[1].state = <<"What is 2+2?">>
    /\ nodes[1].parent = 0
    /\ \A n \in 2..Len(nodes) :
           /\ nodes[n].parent \in 1..(n - 1)
           /\ nodes[n].kind \in DOMAIN KindTag
           /\ nodes[n].previous_state = nodes[nodes[n].parent].state
           /\ nodes[n].state =
                  nodes[n].previous_state \o <<KindTag[nodes[n].kind]>> \o nodes[n].output

\* find_random_child has built a child of a child of the root, two tagged
\* contributions after the question
GrandchildBuilt ==
    \E n \in 2..Len(nodes) :
        /\ nodes[n].parent > 1
        /\ nodes[nodes[n].parent].parent = 1
        /\ nodes[n].state =
               <<"What is 2+2?">> \o <<KindTag[nodes[nodes[n].parent].kind]>>
                   \o nodes[nodes[n].parent].output
                   \o <<KindTag[nodes[n].kind]>> \o nodes[n].output

\* C16: the record that reward logs on a terminal node is the full solving
\* path: the node's previous_state followed by its persona's tag and its
\* output, which is the node's state and the text main logs for the chosen
\* child, every contribution from the root to the node once.
SolvingPathIsState ==
    (ret.op = "reward" /\ ~ret.raised) =>
        LET node == nodes[ret.node]
        IN  /\ Len(ret.logged) = 1
            /\ ret.logged[1] = node.state
            /\ ret.logged[1] =
                   node.previous_state \o <<KindTag[node.kind]>> \o node.output
            /\ Cardinality({k \in 1..Len(ret.logged[1]) :
                               ret.logged[1][k] = KindTag[node.kind]}) = 1

(***************************************************************************)
(* Termination of an iteration.                                            *)
(***************************************************************************)
\* C17: with an oracle that never fails and that answers with the marker
\* in every rollout, every do_iteration call returns; the rollout goes on
\* only from a node that is not terminal, reward is called once, on the
\* first terminal node the rollout reaches, and backpropagation then runs
\* from the target to the root along the parent links.
IterationTerminates ==
    /\ (pc = "select") ~> (pc = "idle")
    /\ [][/\ (ret'.op = "find_random_child" /\ ret' # ret) =>
                 /\ pc = "simulate"
                 /\ ~is_terminal(nodes[cur])
                 /\ ret'.node = cur
          /\ pc' = "backpropagate" =>
                 /\ pc = "simulate"
                 /\ AnswerPlaces(nodes[cur].output) # {}
                 /\ cur \in {target, ret.value}
                 /\ ret'.op = "reward" /\ ret'.node = cur /\ ~ret'.raised
                 /\ sim_reward' = ret'.value
          /\ pc = "backpropagate" =>
                 /\ pc' = "returning"
                 /\ ret' = ret
                 /\ 1 \in Chain(target)
                 /\ Cardinality(Chain(target)) <= Len(nodes)
                 /\ VisitCount(1)' = VisitCount(1) + 1
          /\ pc = "returning" => pc' = "idle" /\ completed' = completed + 1]_vars

\* an iteration is returning whose rollout made more than MaxRollout calls
\* before it reached a terminal node
LongRolloutReturned ==
    /\ pc = "returning"
    /\ depth > MaxRollout
    /\ target # 1
    /\ ret.op = "reward"
    /\ ret.node = cur
    /\ Len(nodes) >= TreeSize + depth

\* C18: after any add_token_usage calls with counts from 0 on, total_tokens
\* is total_prompt_tokens + total_completion_tokens and api_calls is the
\* number of add_token_usage calls made; get_token_usage returns these four
\* values and changes none of them.
UsageTotalsAgree ==
    /\ [](/\ usage.total_tokens =
                 usage.total_prompt_tokens + usage.total_completion_tokens
          /\ usage.api_calls = add_calls)
    /\ [][ret'.op = "get_token_usage" =>
              /\ usage' = usage
              /\ add_calls' = add_calls
              /\ ret'.value.prompt_tokens = usage.total_prompt_tokens
              /\ ret'.value.completion_tokens = usage.total_completion_tokens
              /\ ret'.value.total_tokens = usage.total_tokens
              /\ ret'.value.api_calls = usage.api_calls
              /\ DOMAIN ret'.value =
                     {"prompt_tokens", "completion_tokens", "total_tokens", "api_calls"}]_vars

\* get_token_usage has returned after two or more add_token_usage calls,
\* which added prompt tokens and completion tokens
UsageReadAfterAdds ==
    /\ ret.op = "get_token_usage"
    /\ add_calls >= 2
    /\ usage.total_prompt_tokens > 0
    /\ usage.total_completion_tokens > 0
    /\ ret.value.total_tokens = usage.total_tokens

====
